---- MODULE Spec2Model ----
(***************************************************************************)
(* Variational eigensolver for the single-qubit Hamiltonian                *)
(* H = aZ + bX + cY (src/unnamed/part_000).                                *)
(*                                                                         *)
(* The model follows the notebook's code cell by cell: exp_from_counts,    *)
(* get_var_form, ham_exp_val and the driver cell (optimizer call, final    *)
(* evaluation, ground-state report).  The qasm simulator and the COBYLA    *)
(* optimizer are library code: the simulator is modelled by its contract   *)
(* (a sparse counts dictionary whose values add up to the shots asked      *)
(* for), the optimizer as an environment that may evaluate the objective   *)
(* at any point, one call at a time, and then return any point.            *)
(*                                                                         *)
(* Reals are kept exact: an expectation estimate is the fraction num/den,  *)
(* the energy is dot2 / (2 * sqrt(nrm2)), or NaN when numpy divides 0 by 0.*)
(***************************************************************************)
EXTENDS Integers, Sequences, FiniteSets, TLC

\* ---------------------------------------------------------------- bounds
\* Largest shot budget explored (the notebook sets NUM_SHOTS = 10000).
MaxShots == 3
\* Angles are the symbolic values 0..MaxAngle.
MaxAngle == 1
\* Cap on the number of objective evaluations the optimizer makes.
MaxEvals == 2
\* Longest parameter vector handed to ham_exp_val directly.
MaxLen == 3

VARIABLES
    NUM_SHOTS,    \* configured shot budget (line 38)
    n_params,     \* number of variational parameters (line 109)
    pc,           \* position in the driver cell / in ham_exp_val
    caller,       \* who called ham_exp_val: "optimizer", "final", "direct"
    params,       \* argument of the running ham_exp_val call
    qc,           \* circuit last built by get_var_form
    counts_z,     \* locals of ham_exp_val (lines 79, 83, 87)
    counts_x,
    counts_y,
    runs,         \* execute() calls of the current evaluation, in order
    exp_val_vec,  \* raw expectation vector of the last evaluation (line 90)
    exp_val,      \* value returned by the last evaluation (line 99)
    err,          \* exception that ended the program, or "none"
    nfev,         \* objective evaluations made by the optimizer so far
    opt_result,   \* opt_result[0] (line 121), or <<>> before it exists
    report,       \* the ground-state line printed at the end (lines 128-134)
    counts,       \* input of a stand-alone exp_from_counts call
    est           \* its result

vars == <<NUM_SHOTS, n_params, pc, caller, params, qc, counts_z, counts_x,
          counts_y, runs, exp_val_vec, exp_val, err, nfev, opt_result,
          report, counts, est>>

\* ------------------------------------------------------------ data shapes
Angles == 0..MaxAngle

Vectors(n) == [1..n -> Angles]

Keys == {"0", "1"}

\* Every sparse counts dictionary over the outcome labels, values 0..m.
CountMaps(m) == UNION {[K -> 0..m] : K \in SUBSET Keys}

\* count(k), an absent outcome counting as 0.
Count(c, k) == IF k \in DOMAIN c THEN c[k] ELSE 0

Total(c) == Count(c, "0") + Count(c, "1")

\* "no angle": the gates h, z, s and measure take none.
NoArg == 0 - 1

Gate(g, a) == [gate |-> g, arg |-> a]

NoCounts == [run |-> 0, c |-> [k \in {} |-> 0]]

NoEst == [tag |-> "none", num |-> 0, den |-> 1]

NoVec == <<>>

NoVal == [tag |-> "none", dot2 |-> 0, nrm2 |-> 0]

NoReport == [form |-> "none", ry |-> NoArg, rz |-> NoArg]

\* ------------------------------------------------------- exp_from_counts
Val(n, d) == [tag |-> "val", num |-> n, den |-> d]

KeyError == [tag |-> "KeyError", num |-> 0, den |-> 1]

\* exp_from_counts with the division forgotten in its first branch.
exp_from_counts_nodiv(c) ==
    IF "0" \notin DOMAIN c
    THEN IF "1" \in DOMAIN c THEN Val(-1 * c["1"], 1) ELSE KeyError
    ELSE IF "1" \notin DOMAIN c
         THEN Val(c["0"], NUM_SHOTS)
         ELSE Val(c["0"] - c["1"], NUM_SHOTS)

\* exp_from_counts without its two guards: the difference formula alone.
exp_from_counts_unguarded(c) ==
    IF Keys \subseteq DOMAIN c
    THEN Val(c["0"] - c["1"], NUM_SHOTS)
    ELSE KeyError

\* lines 48-55.  counts['1'] on a dictionary without that key raises KeyError.
exp_from_counts(c) ==
    IF "0" \notin DOMAIN c
    THEN IF "1" \in DOMAIN c THEN Val(-1 * c["1"], NUM_SHOTS) ELSE KeyError
    ELSE IF "1" \notin DOMAIN c
         THEN Val(c["0"], NUM_SHOTS)
         ELSE Val(c["0"] - c["1"], NUM_SHOTS)

\* ----------------------------------------------------------- get_var_form
\* BasisGates with the Y gates in the order S, Z, H.
BasisGates_szh(meas_axis) ==
    IF meas_axis = "x" THEN <<Gate("h", NoArg)>>
    ELSE IF meas_axis = "y"
         THEN <<Gate("s", NoArg), Gate("z", NoArg), Gate("h", NoArg)>>
         ELSE <<>>

\* lines 65-70: the gates that diagonalise the measured Pauli.
BasisGates(meas_axis) ==
    IF meas_axis = "x" THEN <<Gate("h", NoArg)>>
    ELSE IF meas_axis = "y"
         THEN <<Gate("z", NoArg), Gate("s", NoArg), Gate("h", NoArg)>>
         ELSE <<>>

\* lines 57-72, for a vector of length >= 1 (params[0] raises IndexError on
\* an empty one, see get_var_form_raises).  Python's params[0], params[1]
\* are p[1], p[2] here.
get_var_form(p, meas_axis) ==
    <<Gate("ry", p[1])>>
    \o (IF Len(p) > 1 THEN <<Gate("rz", p[2])>> ELSE <<>>)
    \o BasisGates(meas_axis)
    \o <<Gate("measure", NoArg)>>

\* line 62: params[0] of an empty vector.
get_var_form_raises(p) == Len(p) = 0

\* ------------------------------------------------------------ the backend
\* execute() with a hard-coded shot count instead of NUM_SHOTS.
shots_arg_fixed == MaxShots

\* line 78: the shots handed to execute().
shots_arg == NUM_SHOTS

\* lines 78-79: result().get_counts() of a one-bit circuit run `shots` times:
\* only observed outcomes are keys, and the values add up to shots.
get_counts(shots) ==
    {c \in CountMaps(shots) : Total(c) = shots /\ \A k \in DOMAIN c : c[k] >= 1}

\* --------------------------------------------------------------- energy
\* line 108: ham_coef = [1., 2., 0.5], doubled to stay in the integers.
ham_coef2 == <<2, 4, 1>>

NaN == [tag |-> "nan", dot2 |-> 0, nrm2 |-> 0]

\* lines 91-94 on the raw vector v of estimates k/NUM_SHOTS: v / norm(v) is
\* the numerators over the root of their squares' sum; numpy's 0/0 is nan
\* (a warning, no exception), and nan times anything, summed, is nan.
energy(v) ==
    LET nrm2 == v[1].num * v[1].num + v[2].num * v[2].num + v[3].num * v[3].num
        dot2 == ham_coef2[1] * v[1].num + ham_coef2[2] * v[2].num
                + ham_coef2[3] * v[3].num
    IN  IF nrm2 = 0 THEN NaN ELSE [tag |-> "val", dot2 |-> dot2, nrm2 |-> nrm2]

\* ------------------------------------------------------------------ Init
\* line 109 and the notebook's header: n_params is 2, or 1.
NParams == {1, 2}

Idle ==
    /\ qc = <<>>
    /\ counts_z = NoCounts
    /\ counts_x = NoCounts
    /\ counts_y = NoCounts
    /\ runs = <<>>
    /\ exp_val_vec = NoVec
    /\ exp_val = NoVal
    /\ err = "none"
    /\ nfev = 0
    /\ opt_result = <<>>
    /\ report = NoReport

\* The driver cell, about to call optimizer.optimize (line 121).
Init ==
    /\ NUM_SHOTS \in 1..MaxShots
    /\ n_params \in NParams
    /\ pc = "optimize"
    /\ caller = "none"
    /\ params = <<>>
    /\ Idle
    /\ counts = [k \in {} |-> 0]
    /\ est = NoEst

\* --------------------------------------------------------- ham_exp_val
EnterHamExpVal(p, who) ==
    /\ params' = p
    /\ caller' = who
    /\ pc' = "form_z"
    /\ qc' = <<>>
    /\ counts_z' = NoCounts
    /\ counts_x' = NoCounts
    /\ counts_y' = NoCounts
    /\ runs' = <<>>
    /\ exp_val_vec' = NoVec
    /\ exp_val' = NoVal

\* Line 85 copied from line 81 with the axis left at 'x'.
Build_qc_y_copied == get_var_form(params, "x")

\* lines 77, 81, 85: the three circuits.
Build_qc_z == get_var_form(params, "z")

Build_qc_x == get_var_form(params, "x")

Build_qc_y == get_var_form(params, "y")

Form(at, circuit, next) ==
    /\ pc = at
    /\ IF get_var_form_raises(params)
       THEN /\ pc' = "error"
            /\ err' = "IndexError"
            /\ qc' = qc
       ELSE /\ pc' = next
            /\ err' = err
            /\ qc' = circuit
    /\ UNCHANGED <<NUM_SHOTS, n_params, caller, params, counts_z, counts_x,
                   counts_y, runs, exp_val_vec, exp_val, nfev, opt_result,
                   report, counts, est>>

FormZ == Form("form_z", Build_qc_z, "run_z")

FormX == Form("form_x", Build_qc_x, "run_x")

FormY == Form("form_y", Build_qc_y, "run_y")

\* One execute(...).result().get_counts(): a fresh sample, logged.
Sample(c) == [run |-> Len(runs) + 1, c |-> c]

Logged == Append(runs, [circuit |-> qc, shots |-> shots_arg])

\* lines 78-79
RunZ ==
    /\ pc = "run_z"
    /\ \E c \in get_counts(shots_arg) : counts_z' = Sample(c)
    /\ runs' = Logged
    /\ pc' = "form_x"
    /\ UNCHANGED <<NUM_SHOTS, n_params, caller, params, qc, counts_x,
                   counts_y, exp_val_vec, exp_val, err, nfev, opt_result,
                   report, counts, est>>

\* lines 82-83
RunX ==
    /\ pc = "run_x"
    /\ \E c \in get_counts(shots_arg) : counts_x' = Sample(c)
    /\ runs' = Logged
    /\ pc' = "form_y"
    /\ UNCHANGED <<NUM_SHOTS, n_params, caller, params, qc, counts_z,
                   counts_y, exp_val_vec, exp_val, err, nfev, opt_result,
                   report, counts, est>>

\* lines 86-87
RunY ==
    /\ pc = "run_y"
    /\ \E c \in get_counts(shots_arg) : counts_y' = Sample(c)
    /\ runs' = Logged
    /\ pc' = "assemble"
    /\ UNCHANGED <<NUM_SHOTS, n_params, caller, params, qc, counts_z,
                   counts_x, exp_val_vec, exp_val, err, nfev, opt_result,
                   report, counts, est>>

\* line 90: each component with the run its counts came from.
Component(s) ==
    LET e == exp_from_counts(s.c)
    IN  [from |-> s.run, tag |-> e.tag, num |-> e.num, den |-> e.den]

raw_exp_val_vec == <<Component(counts_z), Component(counts_x), Component(counts_y)>>

ReturnTo(who) ==
    IF who = "optimizer" THEN "optimize"
    ELSE IF who = "final" THEN "report" ELSE "done"

\* lines 90-99: assemble, normalise, weight, sum, return.  The locals die
\* with the call.
Assemble ==
    /\ pc = "assemble"
    /\ LET v == raw_exp_val_vec
       IN  IF \E i \in 1..3 : v[i].tag = "KeyError"
           THEN /\ pc' = "error"
                /\ err' = "KeyError"
                /\ exp_val_vec' = exp_val_vec
                /\ exp_val' = exp_val
           ELSE /\ pc' = ReturnTo(caller)
                /\ err' = err
                /\ exp_val_vec' = v
                /\ exp_val' = energy(v)
    /\ counts_z' = NoCounts
    /\ counts_x' = NoCounts
    /\ counts_y' = NoCounts
    /\ qc' = <<>>
    /\ UNCHANGED <<NUM_SHOTS, n_params, caller, params, runs, nfev,
                   opt_result, report, counts, est>>

HamExpVal == FormZ \/ RunZ \/ FormX \/ RunX \/ FormY \/ RunY \/ Assemble

\* ------------------------------------------------------- the driver cell
\* lines 114-121: optimizer.optimize calls objective_function(params), which
\* is ham_exp_val(params, ham_coef), and waits for its value.  Which points
\* it tries and when it stops are the library's business.
OptimizerEvaluate ==
    /\ pc = "optimize"
    /\ nfev < MaxEvals
    /\ \E p \in Vectors(n_params) : EnterHamExpVal(p, "optimizer")
    /\ nfev' = nfev + 1
    /\ UNCHANGED <<NUM_SHOTS, n_params, err, opt_result, report, counts, est>>

\* line 121: optimize returns, having evaluated the objective at least at
\* its initial point; opt_result[0] is a point of num_vars angles.
OptimizerReturn ==
    /\ pc = "optimize"
    /\ nfev >= 1
    /\ \E p \in Vectors(n_params) : opt_result' = p
    /\ pc' = "final_eval"
    /\ UNCHANGED <<NUM_SHOTS, n_params, caller, params, qc, counts_z,
                   counts_x, counts_y, runs, exp_val_vec, exp_val, err, nfev,
                   report, counts, est>>

\* line 123: exp_ham = ham_exp_val(opt_result[0], ham_coef)
FinalEvaluate ==
    /\ pc = "final_eval"
    /\ EnterHamExpVal(opt_result, "final")
    /\ UNCHANGED <<NUM_SHOTS, n_params, err, nfev, opt_result, report,
                   counts, est>>

\* lines 128-134: the angles the printed ground state names.
ground_state ==
    IF n_params = 1
    THEN [form |-> "Ry", ry |-> opt_result[1], rz |-> NoArg]
    ELSE IF n_params = 2
         THEN LET theta == opt_result[1]
                  phi == opt_result[2]
              IN  [form |-> "RzRy", ry |-> phi, rz |-> theta]
         ELSE NoReport

Report ==
    /\ pc = "report"
    /\ report' = ground_state
    /\ pc' = "done"
    /\ UNCHANGED <<NUM_SHOTS, n_params, caller, params, qc, counts_z,
                   counts_x, counts_y, runs, exp_val_vec, exp_val, err, nfev,
                   opt_result, counts, est>>

Next ==
    \/ OptimizerEvaluate
    \/ HamExpVal
    \/ OptimizerReturn
    \/ FinalEvaluate
    \/ Report

Spec == Init /\ [][Next]_vars

\* ------------------------------------- ham_exp_val called on its own
\* ham_exp_val(params, ham_coef) for every vector of 0..MaxLen angles.
InitObjective ==
    /\ NUM_SHOTS \in 1..MaxShots
    /\ n_params = 2
    /\ pc = "form_z"
    /\ caller = "direct"
    /\ params \in UNION {Vectors(n) : n \in 0..MaxLen}
    /\ Idle
    /\ counts = [k \in {} |-> 0]
    /\ est = NoEst

SpecObjective == InitObjective /\ [][HamExpVal]_vars

\* ------------------------------------ exp_from_counts called on its own
\* exp_from_counts(counts) for every sparse dictionary with values up to
\* MaxShots, whether or not they add up to NUM_SHOTS.
InitEstimator ==
    /\ NUM_SHOTS \in 1..MaxShots
    /\ n_params = 2
    /\ pc = "est_call"
    /\ caller = "direct"
    /\ params = <<>>
    /\ Idle
    /\ counts \in CountMaps(MaxShots)
    /\ est = NoEst

ApplyEstimator ==
    /\ pc = "est_call"
    /\ est' = exp_from_counts(counts)
    /\ pc' = "est_done"
    /\ UNCHANGED <<NUM_SHOTS, n_params, caller, params, qc, counts_z,
                   counts_x, counts_y, runs, exp_val_vec, exp_val, err, nfev,
                   opt_result, report, counts>>

SpecEstimator == InitEstimator /\ [][ApplyEstimator]_vars

\* ================================================================ claims
InEvaluation == {"form_z", "run_z", "form_x", "run_x", "form_y", "run_y", "assemble"}

GateNames(circuit) == [i \in 1..Len(circuit) |-> circuit[i].gate]

\* The angles of the leading rotation gates of a circuit, in gate order.
Rotations(circuit) ==
    LET rot == {i \in 1..Len(circuit) : circuit[i].gate \in {"ry", "rz"}}
    IN  [i \in 1..Cardinality(rot) |-> circuit[i].arg]

\* The gates between the rotations and the end of the circuit.
AfterRotations(circuit) ==
    LET rot == {i \in 1..Len(circuit) : circuit[i].gate \in {"ry", "rz"}}
    IN  SubSeq(GateNames(circuit), Cardinality(rot) + 1, Len(circuit))

\* The circuit tail each measurement basis stands for.
TailOf(axis) ==
    IF axis = "z" THEN <<"measure">>
    ELSE IF axis = "x" THEN <<"h", "measure">>
    ELSE <<"z", "s", "h", "measure">>

RunOrder == <<"z", "x", "y">>

\* The angles of a parameter vector that a circuit can carry: the first two.
Leading(p) == [i \in 1..(IF Len(p) > 2 THEN 2 ELSE Len(p)) |-> p[i]]

\* C1: every counts dictionary a simulator run of ham_exp_val produced has
\* count(0) + count(1) = NUM_SHOTS (an absent outcome counting 0), and every
\* run was asked for NUM_SHOTS shots.
C1_CountConservation ==
    /\ \A s \in {counts_z, counts_x, counts_y} :
           s.run # 0 => Total(s.c) = NUM_SHOTS
    /\ \A i \in 1..Len(runs) : runs[i].shots = NUM_SHOTS

\* All three runs made, one of them with an outcome never observed.
C1_Witness ==
    /\ pc = "assemble"
    /\ DOMAIN counts_z.c = Keys
    /\ DOMAIN counts_x.c = {"0"}
    /\ DOMAIN counts_y.c = {"1"}
    /\ NUM_SHOTS > 1

\* C2: for every counts dictionary with count(0) + count(1) = NUM_SHOTS > 0,
\* exp_from_counts returns a value in [-1, 1].
C2_EstimatorRange ==
    (pc = "est_done" /\ Total(counts) = NUM_SHOTS) =>
        /\ est.tag = "val"
        /\ est.den > 0
        /\ -est.den <= est.num
        /\ est.num <= est.den

\* The difference branch, strictly inside the range.
C2_Witness ==
    /\ pc = "est_done"
    /\ DOMAIN counts = Keys
    /\ counts["0"] = 1
    /\ counts["1"] = 2
    /\ NUM_SHOTS = 3
    /\ est = Val(-1, 3)

\* C3: with outcome 1 never observed (absent or 0) and count(0) = NUM_SHOTS
\* exp_from_counts returns exactly +1; with outcome 0 never observed and
\* count(1) = NUM_SHOTS it returns exactly -1; neither raises KeyError.
C3_EdgeCases ==
    pc = "est_done" =>
        /\ (Count(counts, "1") = 0 /\ Count(counts, "0") = NUM_SHOTS) =>
               (est.tag = "val" /\ est.num = est.den)
        /\ (Count(counts, "0") = 0 /\ Count(counts, "1") = NUM_SHOTS) =>
               (est.tag = "val" /\ est.num = -est.den)

\* The key '0' is absent and every shot gave 1.
C3_Witness ==
    /\ pc = "est_done"
    /\ DOMAIN counts = {"1"}
    /\ counts["1"] = NUM_SHOTS
    /\ est.tag = "val"

\* C4, in every state: the runs of an evaluation are made in the order Z, X,
\* Y, each on params with NUM_SHOTS shots; once the evaluation has returned
\* there are exactly three, and component i of the raw vector was computed
\* from the counts of run i.
C4_RunsInOrder ==
    /\ Len(runs) <= 3
    /\ \A i \in 1..Len(runs) :
           /\ runs[i].shots = NUM_SHOTS
           /\ AfterRotations(runs[i].circuit) = TailOf(RunOrder[i])
           /\ Rotations(runs[i].circuit) = Leading(params)
    /\ exp_val # NoVal =>
           /\ Len(runs) = 3
           /\ \A i \in 1..3 : exp_val_vec[i].from = i

\* C4: every evaluation of ham_exp_val makes exactly three simulator runs,
\* Z then X then Y, each with the same params and the full shot budget, each
\* estimate from its own run's counts; and an evaluation starts only from
\* the driver, never while another one is under way.
C4_ThreeRunsPerEvaluation ==
    /\ []C4_RunsInOrder
    /\ [][pc' = "form_z" => pc \notin InEvaluation]_vars

\* The optimizer's second evaluation has returned.
C4_Witness ==
    /\ pc = "optimize"
    /\ nfev = 2
    /\ Len(runs) = 3
    /\ exp_val # NoVal
    /\ Len(params) = 2

\* C5: when the three raw estimates are all 0, the evaluation yields a
\* defined value or an explicit error, never an undefined value.
C5_ZeroVectorHandled ==
    (exp_val_vec # NoVec /\ \A i \in 1..3 : exp_val_vec[i].num = 0) =>
        exp_val.tag = "val"

\* C6: a parameter vector of length 0 or more than 2 fails before any
\* simulator run; only vectors of length 1 or 2 reach the simulator.
C6_LengthValidated ==
    Len(params) \notin {1, 2} =>
        /\ runs = <<>>
        /\ pc \in {"form_z", "error"}

\* C9: with two parameters the vector is (theta, phi), Ry gets phi and Rz
\* gets theta, and the report names as Ry and Rz angle the components the
\* circuit fed to Ry and Rz; with one parameter only Ry is applied.
C9_AngleRoles ==
    pc = "done" =>
        LET circuit == runs[1].circuit
            ry == {i \in 1..Len(circuit) : circuit[i].gate = "ry"}
            rz == {i \in 1..Len(circuit) : circuit[i].gate = "rz"}
        IN  IF n_params = 2
            THEN /\ \A i \in ry : circuit[i].arg = opt_result[2]
                                  /\ report.ry = circuit[i].arg
                 /\ \A i \in rz : circuit[i].arg = opt_result[1]
                                  /\ report.rz = circuit[i].arg
                 /\ Cardinality(ry) = 1
                 /\ Cardinality(rz) = 1
            ELSE /\ \A i \in ry : report.ry = circuit[i].arg
                 /\ Cardinality(ry) = 1
                 /\ rz = {}

RunPc(axis) ==
    IF axis = "z" THEN "run_z" ELSE IF axis = "x" THEN "run_x" ELSE "run_y"

\* C10: in every circuit get_var_form builds the rotations come first (Ry,
\* then Rz when there are two angles), then the gates of the requested
\* basis (none for Z; H for X; Z, S, H for Y), and the one measurement last.
C10_BasisChangeOrder ==
    \A axis \in {"z", "x", "y"} :
        pc = RunPc(axis) =>
            /\ AfterRotations(qc) = TailOf(axis)
            /\ SubSeq(GateNames(qc), 1, Len(qc) - Len(TailOf(axis)))
                   = (IF Len(params) > 1 THEN <<"ry", "rz">> ELSE <<"ry">>)
            /\ Cardinality({i \in 1..Len(qc) : qc[i].gate = "measure"}) = 1

\* The Y circuit of a two-angle state, built and about to run.
C10_Witness ==
    /\ pc = "run_y"
    /\ Len(params) = 2
    /\ Len(qc) = 6

====
